---- MODULE Spec2Model ----
(***************************************************************************)
(* Linear BVH construction of axom::spin (build_radix_tree.hpp):           *)
(* transform_boxes, reduce, get_mcodes, sort_mcodes, reorder, build_tree   *)
(* (Karras radix tree) and propagate_aabbs (lock-free bottom-up union).    *)
(*                                                                         *)
(* Arrays are functions over 0..size-1, as in the source.  Coordinates are *)
(* exact integers (floating-point rounding is not modelled); boxes are     *)
(* three-dimensional, so a Morton code has 3 x 10 = 30 bits.               *)
(*                                                                         *)
(* Spec is a whole call of build_radix_tree; SpecCodes is build_tree alone *)
(* on any non-decreasing code array.                                       *)
(***************************************************************************)
EXTENDS Integers, Sequences, FiniteSets, TLC

\* ------------------------------------------------------------------ bounds

\* largest number of input boxes of one build
MaxN == 4

\* largest length of a code array handed to build_tree on its own
MaxCodeN == 5

\* largest number of boxes handed to get_mcodes on its own
MaxMcodesN == 2

\* ------------------------------------------------------- program constants

\* template parameter NDIMS of the build
NDIMS == 3

\* std::numeric_limits<FloatType>::max(): stand-in larger than any coordinate
infinity == 1000000

neg_infinity == -infinity

\* width of the uint32 Morton code and of the word leadingZeros counts in
WordBits == 32

NUM_BITS_PER_DIM == WordBits \div NDIMS

RECURSIVE Pow2(_)
Pow2(k) == IF k = 0 THEN 1 ELSE 2 * Pow2(k - 1)

FLOAT_TO_INT == Pow2(NUM_BITS_PER_DIM)

FLOAT_CEILING == FLOAT_TO_INT - 1

\* value of an array slot that was allocated and never written
Unwritten == -2

Dims == 1..NDIMS

\* ---------------------------------------------------------------- helpers

Min2(a, b) == IF a < b THEN a ELSE b

Max2(a, b) == IF a > b THEN a ELSE b

Range(f) == {f[x] : x \in DOMAIN f}

\* the 0-based array holding the elements of a sequence
ArrayOf(seq) == [k \in 0..(Len(seq) - 1) |-> seq[k + 1]]

\* the sequence holding the first size elements of a 0-based array
SeqOf(arr, size) == [k \in 1..size |-> arr[k - 1]]

\* the element of a one-element set: a value computed once and then held
Only(S) == CHOOSE x \in S : TRUE

RECURSIVE BitXor(_, _)
BitXor(a, b) ==
  IF a = 0 THEN b
  ELSE IF b = 0 THEN a
  ELSE (((a % 2) + (b % 2)) % 2) + 2 * BitXor(a \div 2, b \div 2)

\* the powers of two below 2^31
Pow2Table == [k \in 0..(WordBits - 2) |-> Pow2(k)]

\* number of bits of x: the position of its highest set bit, 0 for x = 0
BitLen(x) ==
  IF x = 0 THEN 0
  ELSE CHOOSE k \in 1..(WordBits - 1) :
         Pow2Table[k - 1] <= x /\ (k = WordBits - 1 \/ x < Pow2Table[k])

\* axom::utilities::leadingZeros of a 32-bit word
leadingZeros(x) == Only({WordBits - BitLen(y) : y \in {x}})

\* ------------------------------------------------------------------ boxes

Box(lo, hi) == [min |-> lo, max |-> hi]

\* BoundingBox {}: the invalid box, min = InvalidMin, max = InvalidMax
InvalidBox == Box([d \in Dims |-> infinity], [d \in Dims |-> neg_infinity])

\* BoundingBox::addBox: the smallest box holding both
addBox(a, b) ==
  Box([d \in Dims |-> Min2(a.min[d], b.min[d])],
      [d \in Dims |-> Max2(a.max[d], b.max[d])])

\* BoundingBox::scale about the centroid: midpoint -/+ scale * range / 2
scale(b, scale_factor) ==
  Box([d \in Dims |-> ((b.min[d] + b.max[d]) - scale_factor * (b.max[d] - b.min[d])) \div 2],
      [d \in Dims |-> ((b.min[d] + b.max[d]) + scale_factor * (b.max[d] - b.min[d])) \div 2])

\* the boxes a caller passes in
InputBoxes ==
  { Box(<<0, 0, 0>>, <<2, 2, 2>>),
    Box(<<1, 1, 1>>, <<1, 1, 1>>),
    Box(<<2, 0, 0>>, <<4, 2, 2>>),
    Box(<<0, 2, 4>>, <<2, 4, 4>>) }

\* the bounds handed to get_mcodes on its own: around all the boxes, smaller
\* than them (centroids fall below 0, on 1 and above 1 once normalised), and of
\* zero extent on every axis or on one
BoundsPool ==
  { Box(<<0, 0, 0>>, <<4, 4, 4>>),
    Box(<<1, 1, 1>>, <<2, 2, 2>>),
    Box(<<1, 2, 3>>, <<2, 4, 4>>),
    Box(<<0, 0, 0>>, <<1, 1, 1>>),
    Box(<<1, 1, 1>>, <<1, 1, 1>>),
    Box(<<0, 1, 0>>, <<4, 1, 4>>) }

\* the scale factors a caller passes in (odd, so that scaled corners are integers)
ScaleFactors == {1, 3}

\* the Morton codes a code array handed to build_tree on its own is drawn from:
\* neighbours that differ in the lowest bits, in a middle bit and in bit 30
CodePool == {0, 1, 2, 3, 1024, Pow2(30), Pow2(30) + 1}

\* --------------------------------------------------------- transform_boxes

transform_boxes(in, size, scale_factor) ==
  [i \in 0..(size - 1) |-> scale(in[i], scale_factor)]

\* ------------------------------------------------------------------ reduce

\* a minimum that leaves out aabbs[0]
RECURSIVE ReduceMinSkipFirst(_, _, _, _)
ReduceMinSkipFirst(aabbs, size, dim, acc) ==
  IF size <= 1 THEN acc
  ELSE ReduceMinSkipFirst(aabbs, size - 1, dim, Min2(acc, aabbs[size - 1].min[dim]))

\* RAJA::ReduceMin: the minimum of the accumulator and aabbs[i].getMin()[dim], all i
RECURSIVE ReduceMin(_, _, _, _)
ReduceMin(aabbs, size, dim, acc) ==
  IF size = 0 THEN acc
  ELSE ReduceMin(aabbs, size - 1, dim, Min2(acc, aabbs[size - 1].min[dim]))

RECURSIVE ReduceMax(_, _, _, _)
ReduceMax(aabbs, size, dim, acc) ==
  IF size = 0 THEN acc
  ELSE ReduceMax(aabbs, size - 1, dim, Max2(acc, aabbs[size - 1].max[dim]))

\* reduce with both accumulators started at 0 instead of max() and lowest()
reduce_raja_zero_init(aabbs, size) ==
  Box([d \in Dims |-> ReduceMin(aabbs, size, d, 0)],
      [d \in Dims |-> ReduceMax(aabbs, size, d, 0)])

\* the RAJA build: one ReduceMin and one ReduceMax per axis
reduce_raja(aabbs, size) ==
  Box([d \in Dims |-> ReduceMin(aabbs, size, d, infinity)],
      [d \in Dims |-> ReduceMax(aabbs, size, d, neg_infinity)])

RECURSIVE AddBoxes(_, _, _, _)
AddBoxes(aabbs, size, i, global_bounds) ==
  IF i >= size THEN global_bounds
  ELSE AddBoxes(aabbs, size, i + 1, addBox(global_bounds, aabbs[i]))

\* the build without RAJA: global_bounds.addBox(aabbs[i]) for i = 0..size-1
reduce_seq(aabbs, size) == AddBoxes(aabbs, size, 0, InvalidBox)

\* -------------------------------------------------------------- get_mcodes

\* convertPointToMorton: bit k of coordinate d goes to bit NDIMS*k + (d-1)
RECURSIVE convertPointToMorton(_)
convertPointToMorton(pt) ==
  IF \A d \in Dims : pt[d] = 0 THEN 0
  ELSE (pt[1] % 2) + 2 * (pt[2] % 2) + 4 * (pt[3] % 2)
       + 8 * convertPointToMorton([d \in Dims |-> pt[d] \div 2])

\* the scaled coordinate cut to its low NUM_BITS_PER_DIM bits, not clamped
ClampCoordMasked(num, den) == ((num * FLOAT_TO_INT) \div den) % FLOAT_TO_INT

\* fmin(fmax(point * FLOAT_TO_INT, 0), FLOAT_CEILING), then truncated to int32;
\* the coordinate is the exact fraction num / den, den > 0
ClampCoord(num, den) ==
  IF num * FLOAT_TO_INT < 0 THEN 0
  ELSE IF num * FLOAT_TO_INT > FLOAT_CEILING * den THEN FLOAT_CEILING
  ELSE (num * FLOAT_TO_INT) \div den

morton32_encode(num, den) ==
  convertPointToMorton([d \in Dims |-> ClampCoord(num[d], den[d])])

\* get_mcodes with an inverse extent of 1 on an axis of zero extent
get_mcodes_unit_inv_extent(aabbs, size, bnds) ==
  LET extent == [d \in Dims |-> bnds.max[d] - bnds.min[d]]
      num(i) == [d \in Dims |-> (aabbs[i].min[d] + aabbs[i].max[d]) - 2 * bnds.min[d]]
      den == [d \in Dims |-> IF extent[d] = 0 THEN 2 ELSE 2 * extent[d]]
  IN [i \in 0..(size - 1) |-> morton32_encode(num(i), den)]

\* centroid = (min + max) / 2, normalised by (centroid - min_coord) * inv_extent;
\* inv_extent is 0 on an axis of zero extent
get_mcodes(aabbs, size, bnds) ==
  LET extent == [d \in Dims |-> bnds.max[d] - bnds.min[d]]
      num(i) == [d \in Dims |->
                   IF extent[d] = 0 THEN 0
                   ELSE (aabbs[i].min[d] + aabbs[i].max[d]) - 2 * bnds.min[d]]
      den == [d \in Dims |-> IF extent[d] = 0 THEN 1 ELSE 2 * extent[d]]
  IN [i \in 0..(size - 1) |-> morton32_encode(num(i), den)]

\* ------------------------------------------------- array_counting, reorder

\* array_counting that fills the array from its last slot down
array_counting_descending(size, start, step) ==
  [i \in 0..(size - 1) |-> start + (size - 1 - i) * step]

\* iter[i] = start + i * step
array_counting(size, start, step) == [i \in 0..(size - 1) |-> start + i * step]

\* reorder as a scatter, temp[indices[i]] = array[i]
reorder_scatter(indices, array, size) ==
  [i \in 0..(size - 1) |->
     IF \E k \in 0..(size - 1) : indices[k] = i
     THEN array[CHOOSE k \in 0..(size - 1) : indices[k] = i]
     ELSE array[i]]

\* temp[i] = array[indices[i]]
reorder(indices, array, size) == [i \in 0..(size - 1) |-> array[indices[i]]]

\* ------------------------------------------------------------- sort_mcodes

\* a stable sort inserts each element, in input order, before the first
\* element already placed that it is less than
RECURSIVE InsertByKey(_, _, _)
InsertByKey(x, sorted, key) ==
  IF sorted = << >> THEN <<x>>
  ELSE IF key[x] < key[Head(sorted)] THEN <<x>> \o sorted
  ELSE <<Head(sorted)>> \o InsertByKey(x, Tail(sorted), key)

RECURSIVE StableSortByKey(_, _, _)
StableSortByKey(todo, sorted, key) ==
  IF todo = << >> THEN sorted
  ELSE StableSortByKey(Tail(todo), InsertByKey(Head(todo), sorted, key), key)

\* the fallback without its final reorder of the code array
sort_mcodes_fallback_no_reorder(mcodes, size) ==
  LET iter == ArrayOf(StableSortByKey(SeqOf(array_counting(size, 0, 1), size), << >>, mcodes))
  IN [mcodes |-> mcodes, iter |-> iter]

\* std::stable_sort(iter, [&](i1, i2) { return mcodes[i1] < mcodes[i2]; })
\* followed by reorder(iter, mcodes)
sort_mcodes_fallback(mcodes, size) ==
  LET iter == ArrayOf(StableSortByKey(SeqOf(array_counting(size, 0, 1), size), << >>, mcodes))
  IN [mcodes |-> reorder(iter, mcodes, size), iter |-> iter]

RECURSIVE InsertPair(_, _)
InsertPair(p, sorted) ==
  IF sorted = << >> THEN <<p>>
  ELSE IF p[1] < Head(sorted)[1] THEN <<p>> \o sorted
  ELSE <<Head(sorted)>> \o InsertPair(p, Tail(sorted))

RECURSIVE StableSortPairs(_, _)
StableSortPairs(todo, sorted) ==
  IF todo = << >> THEN sorted
  ELSE StableSortPairs(Tail(todo), InsertPair(Head(todo), sorted))

\* RAJA::stable_sort_pairs(mcodes, iter): the (code, index) pairs sorted by code
sort_mcodes_pairs(mcodes, size) ==
  LET iter0 == array_counting(size, 0, 1)
      pairs == StableSortPairs([k \in 1..size |-> <<mcodes[k - 1], iter0[k - 1]>>], << >>)
  IN [mcodes |-> [i \in 0..(size - 1) |-> pairs[i + 1][1]],
      iter |-> [i \in 0..(size - 1) |-> pairs[i + 1][2]]]

\* ------------------------------------------------------------------- delta

\* const int32 bb = (out_of_range) ? 0 : b: the position bcode is read at
delta_bb(b, inner_size) == IF (b < 0 \/ b > inner_size) THEN 0 ELSE b

\* delta that does not fall back on the indices when the two codes are equal
delta_no_tiebreak(a, b, inner_size, mcodes) ==
  LET out_of_range == (b < 0 \/ b > inner_size)
      bb == delta_bb(b, inner_size)
      exor == BitXor(mcodes[a], mcodes[bb])
      tie == (exor = 0)
      count == leadingZeros(exor) + (IF tie THEN WordBits ELSE 0)
  IN IF out_of_range THEN -1 ELSE count

\* delta without the 32 added for equal codes
delta_tie_no_offset(a, b, inner_size, mcodes) ==
  LET out_of_range == (b < 0 \/ b > inner_size)
      bb == delta_bb(b, inner_size)
      acode == mcodes[a]
      bcode == mcodes[bb]
      tie == (BitXor(acode, bcode) = 0)
      exor == IF tie THEN BitXor(a, bb) ELSE BitXor(acode, bcode)
  IN IF out_of_range THEN -1 ELSE leadingZeros(exor)

\* number of leading bits codes a and b share; equal codes are told apart by
\* their indices, 32 is added for them; -1 when b is outside the array
delta(a, b, inner_size, mcodes) ==
  LET out_of_range == (b < 0 \/ b > inner_size)
      bb == delta_bb(b, inner_size)
      acode == mcodes[a]
      bcode == mcodes[bb]
  IN IF out_of_range THEN -1
     ELSE Only({ LET tie == (exor = 0)
                     count == leadingZeros(IF tie THEN BitXor(a, bb) ELSE exor)
                              + (IF tie THEN WordBits ELSE 0)
                 IN count : exor \in {BitXor(acode, bcode)} })

\* -------------------------------------------------------------- build_tree

\* determine range direction
RangeDirection(i, inner_size, mcodes) ==
  IF 0 > delta(i, i + 1, inner_size, mcodes) - delta(i, i - 1, inner_size, mcodes)
  THEN -1 ELSE 1

\* an upper bound that is never doubled
RangeUpperBoundNoDoubling(i, d, min_delta, lmax, inner_size, mcodes) == lmax

\* while(delta(i, i + lmax * d) > min_delta) lmax *= 2
RECURSIVE RangeUpperBound(_, _, _, _, _, _)
RangeUpperBound(i, d, min_delta, lmax, inner_size, mcodes) ==
  IF delta(i, i + lmax * d, inner_size, mcodes) > min_delta
  THEN RangeUpperBound(i, d, min_delta, lmax * 2, inner_size, mcodes)
  ELSE lmax

\* a halving loop that ends before its step of 1
RECURSIVE RangeLengthSkipsLastStep(_, _, _, _, _, _, _)
RangeLengthSkipsLastStep(i, d, min_delta, l, t, inner_size, mcodes) ==
  IF t < 2 THEN l
  ELSE Only({RangeLengthSkipsLastStep(i, d, min_delta, l2, t \div 2, inner_size, mcodes) :
             l2 \in {IF delta(i, i + (l + t) * d, inner_size, mcodes) > min_delta
                     THEN l + t ELSE l}})

\* for(t = lmax / 2; t >= 1; t /= 2) if(delta(i, i + (l + t) * d) > min_delta) l += t
RECURSIVE RangeLength(_, _, _, _, _, _, _)
RangeLength(i, d, min_delta, l, t, inner_size, mcodes) ==
  IF t < 1 THEN l
  ELSE Only({RangeLength(i, d, min_delta, l2, t \div 2, inner_size, mcodes) :
             l2 \in {IF delta(i, i + (l + t) * d, inner_size, mcodes) > min_delta
                     THEN l + t ELSE l}})

\* value of the split search when its step never reaches 1 (the loop does not end)
NoSplit == -1

\* a split search whose step is l / div_factor rounded down
RECURSIVE SplitSearchFloorStep(_, _, _, _, _, _, _, _)
SplitSearchFloorStep(i, d, delta_node, l, s, div_factor, inner_size, mcodes) ==
  LET t == l \div div_factor
      s2 == IF delta(i, i + (s + t) * d, inner_size, mcodes) > delta_node
            THEN s + t ELSE s
  IN IF t <= 1 THEN s2
     ELSE SplitSearchFloorStep(i, d, delta_node, l, s2, div_factor * 2, inner_size, mcodes)

\* for(t = ceil(l / div_factor);; div_factor *= 2, t = ceil(l / div_factor))
\*   { if(delta(i, i + (s + t) * d) > delta_node) s += t; if(t == 1) break; }
RECURSIVE SplitSearch(_, _, _, _, _, _, _, _)
SplitSearch(i, d, delta_node, l, s, div_factor, inner_size, mcodes) ==
  LET t == (l + div_factor - 1) \div div_factor
      s2 == IF delta(i, i + (s + t) * d, inner_size, mcodes) > delta_node
            THEN s + t ELSE s
  IN IF t = 1 THEN s2
     ELSE IF t < 1 THEN NoSplit
     ELSE Only({SplitSearch(i, d, delta_node, l, s3, div_factor * 2, inner_size, mcodes) :
                s3 \in {s2}})

\* what the task of internal node i computes from the code array
\* (each local of the task is computed once and then held as a value)
NodeRange(i, inner_size, mcodes) ==
  Only({ Only({ Only({ Only({ Only({ Only({ Only({
    [d |-> d, l |-> l, j |-> j, s |-> s, split |-> i + s * d + Min2(d, 0)]
       : s \in {SplitSearch(i, d, delta_node, l, 0, 2, inner_size, mcodes)} })
       : delta_node \in {delta(i, j, inner_size, mcodes)} })
       : j \in {i + l * d} })
       : l \in {RangeLength(i, d, min_delta, 0, lmax \div 2, inner_size, mcodes)} })
       : lmax \in {RangeUpperBound(i, d, min_delta, 2, inner_size, mcodes)} })
       : min_delta \in {delta(i, i - d, inner_size, mcodes)} })
       : d \in {RangeDirection(i, inner_size, mcodes)} })

\* a write through an array view; a slot outside the array is not written
Store(array, k, v) == IF k \in DOMAIN array THEN [array EXCEPT ![k] = v] ELSE array

\* child assignment that forgets the leaf offset inner_size
AssignChildrenNoLeafOffset(i, j, split, inner_size, tree) ==
  LET lchild == split
      rchild == split + 1
      p1 == Store(tree.parents, lchild, i)
      p2 == Store(p1, rchild, i)
      p3 == IF i = 0 THEN Store(p2, 0, -1) ELSE p2
  IN [parents |-> p3,
      left_children |-> Store(tree.left_children, i, lchild),
      right_children |-> Store(tree.right_children, i, rchild),
      in_bounds |-> (lchild \in DOMAIN tree.parents /\ rchild \in DOMAIN tree.parents),
      parent_slots |-> {lchild, rchild} \cup (IF i = 0 THEN {0} ELSE {}),
      child_slot |-> i]

\* child assignment that stores the two children the other way round
AssignChildrenSwapped(i, j, split, inner_size, tree) ==
  LET lchild == IF Min2(i, j) = split THEN split + inner_size ELSE split
      rchild == IF Max2(i, j) = split + 1 THEN split + inner_size + 1 ELSE split + 1
      p1 == Store(tree.parents, lchild, i)
      p2 == Store(p1, rchild, i)
      p3 == IF i = 0 THEN Store(p2, 0, -1) ELSE p2
  IN [parents |-> p3,
      left_children |-> Store(tree.left_children, i, rchild),
      right_children |-> Store(tree.right_children, i, lchild),
      in_bounds |-> (lchild \in DOMAIN tree.parents /\ rchild \in DOMAIN tree.parents),
      parent_slots |-> {lchild, rchild} \cup (IF i = 0 THEN {0} ELSE {}),
      child_slot |-> i]

\* child assignment that does not set the parent of the right child
AssignChildrenNoRightParent(i, j, split, inner_size, tree) ==
  LET lchild == IF Min2(i, j) = split THEN split + inner_size ELSE split
      rchild == IF Max2(i, j) = split + 1 THEN split + inner_size + 1 ELSE split + 1
      p1 == Store(tree.parents, lchild, i)
      p3 == IF i = 0 THEN Store(p1, 0, -1) ELSE p1
  IN [parents |-> p3,
      left_children |-> Store(tree.left_children, i, lchild),
      right_children |-> Store(tree.right_children, i, rchild),
      in_bounds |-> (lchild \in DOMAIN tree.parents /\ rchild \in DOMAIN tree.parents),
      parent_slots |-> {lchild} \cup (IF i = 0 THEN {0} ELSE {}),
      child_slot |-> i]

\* child assignment in which every task flags the root, not only task 0
AssignChildrenAllFlagRoot(i, j, split, inner_size, tree) ==
  LET lchild == IF Min2(i, j) = split THEN split + inner_size ELSE split
      rchild == IF Max2(i, j) = split + 1 THEN split + inner_size + 1 ELSE split + 1
      p1 == Store(tree.parents, lchild, i)
      p2 == Store(p1, rchild, i)
      p3 == Store(p2, 0, -1)
  IN [parents |-> p3,
      left_children |-> Store(tree.left_children, i, lchild),
      right_children |-> Store(tree.right_children, i, rchild),
      in_bounds |-> (lchild \in DOMAIN tree.parents /\ rchild \in DOMAIN tree.parents),
      parent_slots |-> {lchild, rchild, 0},
      child_slot |-> i]

\* assign parent/child pointers of internal node i
AssignChildren(i, j, split, inner_size, tree) ==
  LET lchild == IF Min2(i, j) = split THEN split + inner_size ELSE split
      rchild == IF Max2(i, j) = split + 1 THEN split + inner_size + 1 ELSE split + 1
      p1 == Store(tree.parents, lchild, i)
      p2 == Store(p1, rchild, i)
      p3 == IF i = 0 THEN Store(p2, 0, -1) ELSE p2
  IN [parents |-> p3,
      left_children |-> Store(tree.left_children, i, lchild),
      right_children |-> Store(tree.right_children, i, rchild),
      in_bounds |-> (lchild \in DOMAIN tree.parents /\ rchild \in DOMAIN tree.parents),
      parent_slots |-> {lchild, rchild} \cup (IF i = 0 THEN {0} ELSE {}),
      child_slot |-> i]

\* --------------------------------------------------------- propagate_aabbs

\* an increment whose update is lost: the old value is returned, nothing is added
atomic_increment_lost(cnt, node) == [old |-> cnt[node], counters |-> cnt]

\* int old = *addr; (*addr)++; return old;  as one atomic step
atomic_increment(cnt, node) ==
  [old |-> cnt[node], counters |-> [cnt EXCEPT ![node] = cnt[node] + 1]]

\* if(old == 0) with the test inverted: the second arrival returns
FirstArrivalInverted(old) == old /= 0

\* if(old == 0) left out: no arrival returns
FirstArrivalNever(old) == FALSE

\* if(old == 0) return;  the first thread to get here kills itself
FirstArrival(old) == old = 0

\* other_child that is always the left child
OtherChildLeft(lchild, rchild, last_node) == lchild

\* int32 other_child = (lchild == last_node) ? rchild : lchild
OtherChild(lchild, rchild, last_node) == IF lchild = last_node THEN rchild ELSE lchild

\* host path of sync_load: acquire fence, then the box as it is in memory
sync_load(inner_aabbs, node) == inner_aabbs[node]

\* the box the second arrival unions with its own
OtherAabb(other_child, inner_size, leaf_aabbs, inner_aabbs) ==
  IF other_child >= inner_size
  THEN leaf_aabbs[other_child - inner_size]
  ELSE sync_load(inner_aabbs, other_child)

\* host path of sync_store: box = value, then a release fence
sync_store(inner_aabbs, node, value) == [inner_aabbs EXCEPT ![node] = value]

\* the coordinates of a box that hold the value an internal box is initialised
\* with: min[dim] == InvalidMin, max[dim] == InvalidMax
SentinelCoords(box) ==
  {<<"min", d>> : d \in {e \in Dims : box.min[e] = infinity}}
    \cup {<<"max", d>> : d \in {e \in Dims : box.max[e] = neg_infinity}}

\* device path of sync_load: each coordinate is read again while it holds the
\* sentinel; the read returns the box once no coordinate holds it
sync_load_device(inner_aabbs, node) ==
  [returned |-> SentinelCoords(inner_aabbs[node]) = {}, box |-> inner_aabbs[node]]

\* a store that never leaves the thread
sync_store_device_dropped(flight, node, value) == flight

\* device path of sync_store: an atomicExchange per coordinate, on its way to memory
sync_store_device(flight, node, value) ==
  [k \in DOMAIN flight \cup {node} |-> IF k = node THEN value ELSE flight[k]]

\* the values a read of parent_ptr[k] can produce: a slot that build_tree never
\* wrote holds whatever the allocation left there
ParentValues(parents, k) ==
  IF parents[k] = Unwritten THEN {-1, 0} ELSE {parents[k]}

\* ------------------------------------------------------------------- state

VARIABLES
  size,              \* argument size of build_radix_tree
  boxes,             \* argument boxes (the caller's collection)
  scale_factor,      \* argument scale_factor
  stage,             \* the statement build_radix_tree is at
  bounds,            \* output argument bounds
  m_leaf_aabbs,      \* RadixTree::m_leaf_aabbs
  m_mcodes,          \* RadixTree::m_mcodes
  m_leafs,           \* RadixTree::m_leafs
  m_parents,         \* RadixTree::m_parents
  m_left_children,   \* RadixTree::m_left_children
  m_right_children,  \* RadixTree::m_right_children
  m_inner_aabbs,     \* RadixTree::m_inner_aabbs
  built,             \* internal nodes whose build_tree task has run
  counters,          \* the visit counters of propagate_aabbs
  slot_writers,      \* history: per array of the tree and slot, the tasks that wrote it
  walk,              \* per leaf: the locals of its propagate_aabbs task
  arrivals,          \* history: per internal node, who incremented and what it saw
  stored_by,         \* history: per internal node, the leaves that stored its box
  in_flight,         \* device path: the box stores issued and not yet in memory
  m_nranks,          \* DistributedClosestPoint::m_nranks
  ranks,             \* per MPI rank: where computeClosestPoints is, and its nodes
  network            \* the messages sent and not yet received

vars == <<size, boxes, scale_factor, stage, bounds, m_leaf_aabbs, m_mcodes, m_leafs,
          m_parents, m_left_children, m_right_children, m_inner_aabbs, built,
          slot_writers, counters, walk, arrivals, stored_by, in_flight,
          m_nranks, ranks, network>>

inputs == <<size, boxes, scale_factor>>

tree == <<m_parents, m_left_children, m_right_children, slot_writers>>

propagation == <<m_inner_aabbs, counters, walk, arrivals, stored_by, in_flight>>

distributed == <<m_nranks, ranks, network>>

\* RadixTree::m_inner_size
m_inner_size == size - 1

Leaves == 0..(size - 1)

Inner == 0..(m_inner_size - 1)

Nodes == 0..(size + m_inner_size - 1)

\* the condition of SLIC_ASSERT(size > 0)
SizeIsValid(n) == n > 0

Init ==
  /\ size \in (-1)..MaxN
  /\ boxes \in [0..(size - 1) -> InputBoxes]
  /\ scale_factor \in ScaleFactors
  /\ stage = "start"
  /\ bounds = InvalidBox
  /\ m_leaf_aabbs = << >>
  /\ m_mcodes = << >>
  /\ m_leafs = << >>
  /\ m_parents = << >>
  /\ m_left_children = << >>
  /\ m_right_children = << >>
  /\ m_inner_aabbs = << >>
  /\ built = {}
  /\ slot_writers = [parents |-> << >>, left_children |-> << >>, right_children |-> << >>]
  /\ counters = << >>
  /\ walk = << >>
  /\ arrivals = << >>
  /\ stored_by = << >>
  /\ in_flight = << >>
  /\ m_nranks = 0
  /\ ranks = << >>
  /\ network = {}

\* ------------------------------------------------------- build_radix_tree

\* SLIC_ASSERT(size > 0) fails
AssertFail ==
  /\ stage = "start"
  /\ ~SizeIsValid(size)
  /\ stage' = "aborted"
  /\ UNCHANGED <<distributed, inputs, bounds, m_leaf_aabbs, m_mcodes, m_leafs, tree, built, propagation>>

\* radix_tree.allocate(size, allocatorID)
Allocate ==
  /\ stage = "start"
  /\ SizeIsValid(size)
  /\ m_leaf_aabbs' = [i \in Leaves |-> InvalidBox]
  /\ m_mcodes' = [i \in Leaves |-> 0]
  /\ m_leafs' = [i \in Leaves |-> 0]
  /\ m_parents' = [k \in Nodes |-> Unwritten]
  /\ m_left_children' = [k \in Inner |-> Unwritten]
  /\ m_right_children' = [k \in Inner |-> Unwritten]
  /\ m_inner_aabbs' = [k \in Inner |-> InvalidBox]
  /\ slot_writers' = [parents |-> [k \in Nodes |-> {}],
                      left_children |-> [k \in Inner |-> {}],
                      right_children |-> [k \in Inner |-> {}]]
  /\ stage' = "transform_boxes"
  /\ UNCHANGED <<distributed, inputs, bounds, built, counters, walk, arrivals, stored_by, in_flight>>

TransformBoxes ==
  /\ stage = "transform_boxes"
  /\ m_leaf_aabbs' = transform_boxes(boxes, size, scale_factor)
  /\ stage' = "reduce"
  /\ UNCHANGED <<distributed, inputs, bounds, m_mcodes, m_leafs, tree, built, propagation>>

\* bounds = reduce(m_leaf_aabbs, size), in a build with RAJA
ReduceRaja ==
  /\ stage = "reduce"
  /\ bounds' = reduce_raja(m_leaf_aabbs, size)
  /\ stage' = "get_mcodes"
  /\ UNCHANGED <<distributed, inputs, m_leaf_aabbs, m_mcodes, m_leafs, tree, built, propagation>>

\* bounds = reduce(m_leaf_aabbs, size), in a build without RAJA
ReduceSeq ==
  /\ stage = "reduce"
  /\ bounds' = reduce_seq(m_leaf_aabbs, size)
  /\ stage' = "get_mcodes"
  /\ UNCHANGED <<distributed, inputs, m_leaf_aabbs, m_mcodes, m_leafs, tree, built, propagation>>

GetMcodes ==
  /\ stage = "get_mcodes"
  /\ m_mcodes' = get_mcodes(m_leaf_aabbs, size, bounds)
  /\ stage' = "sort_mcodes"
  /\ UNCHANGED <<distributed, inputs, bounds, m_leaf_aabbs, m_leafs, tree, built, propagation>>

\* sort_mcodes of a build with RAJA >= 0.12
SortMcodesPairs ==
  /\ stage = "sort_mcodes"
  /\ LET r == sort_mcodes_pairs(m_mcodes, size)
     IN /\ m_mcodes' = r.mcodes
        /\ m_leafs' = r.iter
  /\ stage' = "reorder"
  /\ UNCHANGED <<distributed, inputs, bounds, m_leaf_aabbs, tree, built, propagation>>

\* sort_mcodes of the other builds
SortMcodesFallback ==
  /\ stage = "sort_mcodes"
  /\ LET r == sort_mcodes_fallback(m_mcodes, size)
     IN /\ m_mcodes' = r.mcodes
        /\ m_leafs' = r.iter
  /\ stage' = "reorder"
  /\ UNCHANGED <<distributed, inputs, bounds, m_leaf_aabbs, tree, built, propagation>>

\* a reorder that also permutes the caller's collection
ReorderInput ==
  /\ stage = "reorder"
  /\ m_leaf_aabbs' = reorder(m_leafs, m_leaf_aabbs, size)
  /\ boxes' = reorder(m_leafs, boxes, size)
  /\ stage' = "build_tree"
  /\ UNCHANGED <<distributed, size, scale_factor, bounds, m_mcodes, m_leafs, tree, built, propagation>>

\* reorder(m_leafs, m_leaf_aabbs, size)
Reorder ==
  /\ stage = "reorder"
  /\ m_leaf_aabbs' = reorder(m_leafs, m_leaf_aabbs, size)
  /\ stage' = "build_tree"
  /\ UNCHANGED <<distributed, inputs, bounds, m_mcodes, m_leafs, tree, built, propagation>>

\* the task of internal node i in the for_all of build_tree
BuildTreeTask(i) ==
  /\ stage = "build_tree"
  /\ i \in Inner \ built
  /\ \E r \in {NodeRange(i, m_inner_size, m_mcodes)} :
     \E t \in {AssignChildren(i, r.j, r.split, m_inner_size,
                              [parents |-> m_parents,
                               left_children |-> m_left_children,
                               right_children |-> m_right_children])} :
        IF r.s = NoSplit
        THEN /\ stage' = "hung"
             /\ UNCHANGED <<tree, built>>
        ELSE IF ~t.in_bounds
        THEN /\ stage' = "out_of_bounds"
             /\ UNCHANGED <<tree, built>>
        ELSE /\ m_parents' = t.parents
             /\ m_left_children' = t.left_children
             /\ m_right_children' = t.right_children
             /\ slot_writers' =
                  [parents |-> [k \in Nodes |->
                                  IF k \in t.parent_slots
                                  THEN slot_writers.parents[k] \cup {i}
                                  ELSE slot_writers.parents[k]],
                   left_children |-> [slot_writers.left_children EXCEPT
                                        ![t.child_slot] = @ \cup {i}],
                   right_children |-> [slot_writers.right_children EXCEPT
                                         ![t.child_slot] = @ \cup {i}]]
             /\ built' = built \cup {i}
             /\ stage' = stage
  /\ UNCHANGED <<distributed, inputs, bounds, m_leaf_aabbs, m_mcodes, m_leafs, propagation>>

\* a for_all that returns once its first task has been launched
ForAllReturnsEarly(done, tasks) == TRUE

\* for_all returns when each of its tasks has run
ForAllReturns(done, tasks) == done = tasks

\* build_tree has returned; propagate_aabbs resets the internal boxes, allocates
\* the counters and launches one task per leaf, which reads its leaf box and parent
StartPropagate ==
  /\ stage = "build_tree"
  /\ ForAllReturns(built, Inner)
  /\ m_inner_aabbs' = [k \in Inner |-> InvalidBox]
  /\ counters' = [k \in Inner |-> 0]
  /\ arrivals' = [k \in Inner |-> << >>]
  /\ stored_by' = [k \in Inner |-> << >>]
  /\ in_flight' = << >>
  /\ \E pick \in [{i \in Leaves : m_parents[m_inner_size + i] = Unwritten} -> {-1, 0}] :
       walk' = [i \in Leaves |->
                  LET parent == IF i \in DOMAIN pick THEN pick[i]
                                ELSE m_parents[m_inner_size + i]
                  IN [pc |-> IF parent /= -1 THEN "increment" ELSE "exited",
                      aabb |-> m_leaf_aabbs[i],
                      last_node |-> m_inner_size + i,
                      current_node |-> parent]]
  /\ stage' = "propagate_aabbs"
  /\ UNCHANGED <<distributed, inputs, bounds, m_leaf_aabbs, m_mcodes, m_leafs, tree, built>>

\* atomic_increment(&counters_ptr[current_node]); the first arrival returns
WalkIncrement(i) ==
  /\ stage = "propagate_aabbs"
  /\ i \in Leaves
  /\ walk[i].pc = "increment"
  /\ LET node == walk[i].current_node
     IN IF node \notin DOMAIN counters
        THEN /\ walk' = [walk EXCEPT ![i].pc = "out_of_bounds"]
             /\ UNCHANGED <<counters, arrivals>>
        ELSE LET r == atomic_increment(counters, node)
             IN /\ counters' = r.counters
                /\ arrivals' = [arrivals EXCEPT
                                  ![node] = Append(@, [leaf |-> i, old |-> r.old,
                                                       from |-> walk[i].last_node])]
                /\ walk' = [walk EXCEPT
                              ![i].pc = IF FirstArrival(r.old) THEN "killed" ELSE "load"]
  /\ UNCHANGED <<distributed, inputs, stage, bounds, m_leaf_aabbs, m_mcodes, m_leafs, tree, built,
                 m_inner_aabbs, stored_by, in_flight>>

\* the second arrival reads the other child's box and adds it to its own
WalkLoad(i) ==
  /\ stage = "propagate_aabbs"
  /\ i \in Leaves
  /\ walk[i].pc = "load"
  /\ LET node == walk[i].current_node
         other_child == OtherChild(m_left_children[node], m_right_children[node],
                                   walk[i].last_node)
         other_aabb == OtherAabb(other_child, m_inner_size, m_leaf_aabbs, m_inner_aabbs)
     IN walk' = [walk EXCEPT ![i].aabb = addBox(@, other_aabb), ![i].pc = "store"]
  /\ UNCHANGED <<distributed, inputs, stage, bounds, m_leaf_aabbs, m_mcodes, m_leafs, tree, built,
                 m_inner_aabbs, counters, arrivals, stored_by, in_flight>>

\* sync_store(inner_aabb_ptr[current_node], aabb); then up to the parent
WalkStore(i) ==
  /\ stage = "propagate_aabbs"
  /\ i \in Leaves
  /\ walk[i].pc = "store"
  /\ LET node == walk[i].current_node
     IN /\ m_inner_aabbs' = sync_store(m_inner_aabbs, node, walk[i].aabb)
        /\ stored_by' = [stored_by EXCEPT ![node] = Append(@, i)]
        /\ \E parent \in ParentValues(m_parents, node) :
             walk' = [walk EXCEPT ![i].last_node = node,
                                  ![i].current_node = parent,
                                  ![i].pc = IF parent /= -1 THEN "increment" ELSE "exited"]
  /\ UNCHANGED <<distributed, inputs, stage, bounds, m_leaf_aabbs, m_mcodes, m_leafs, tree, built,
                 counters, arrivals, in_flight>>

\* every task of the for_all has returned: propagate_aabbs and the build return
Finish ==
  /\ stage = "propagate_aabbs"
  /\ \A i \in Leaves : walk[i].pc \in {"killed", "exited"}
  /\ DOMAIN in_flight = {}
  /\ stage' = "done"
  /\ UNCHANGED <<distributed, inputs, bounds, m_leaf_aabbs, m_mcodes, m_leafs, tree, built, propagation>>

Next ==
  \/ AssertFail
  \/ Allocate
  \/ TransformBoxes
  \/ ReduceRaja
  \/ ReduceSeq
  \/ GetMcodes
  \/ SortMcodesPairs
  \/ SortMcodesFallback
  \/ Reorder
  \/ \E i \in 0..(MaxN - 1) : BuildTreeTask(i)
  \/ StartPropagate
  \/ \E i \in 0..(MaxN - 1) : WalkIncrement(i)
  \/ \E i \in 0..(MaxN - 1) : WalkLoad(i)
  \/ \E i \in 0..(MaxN - 1) : WalkStore(i)
  \/ Finish

Spec == Init /\ [][Next]_vars

\* one step of the walk that starts at leaf i
WalkStep(i) == WalkIncrement(i) \/ WalkLoad(i) \/ WalkStore(i)

\* the build under a for_all that runs each walk: a walk that can step does step
SpecFair == Init /\ [][Next]_vars /\ \A i \in 0..(MaxN - 1) : WF_vars(WalkStep(i))

\* ------------------------------------------- propagate_aabbs on the device

\* number of boxes of the builds run on the device path
MaxDeviceN == 3

\* the second arrival reads the other child's box: a leaf box as it is, the box of
\* an internal node by polling; a poll that met the sentinel reads again
WalkPoll(i) ==
  /\ stage = "propagate_aabbs"
  /\ i \in Leaves
  /\ walk[i].pc \in {"load", "polling"}
  /\ LET node == walk[i].current_node
         other_child == OtherChild(m_left_children[node], m_right_children[node],
                                   walk[i].last_node)
     IN IF other_child >= m_inner_size
        THEN walk' = [walk EXCEPT
                        ![i].aabb = addBox(@, m_leaf_aabbs[other_child - m_inner_size]),
                        ![i].pc = "store"]
        ELSE LET r == sync_load_device(m_inner_aabbs, other_child)
             IN IF r.returned
                THEN walk' = [walk EXCEPT ![i].aabb = addBox(@, r.box), ![i].pc = "store"]
                ELSE /\ walk[i].pc = "load"
                     /\ walk' = [walk EXCEPT ![i].pc = "polling"]
  /\ UNCHANGED <<distributed, inputs, stage, bounds, m_leaf_aabbs, m_mcodes, m_leafs, tree, built,
                 m_inner_aabbs, counters, arrivals, stored_by, in_flight>>

\* sync_store(inner_aabb_ptr[current_node], aabb) on the device; then up to the parent
WalkStoreDevice(i) ==
  /\ stage = "propagate_aabbs"
  /\ i \in Leaves
  /\ walk[i].pc = "store"
  /\ LET node == walk[i].current_node
     IN /\ in_flight' = sync_store_device(in_flight, node, walk[i].aabb)
        /\ stored_by' = [stored_by EXCEPT ![node] = Append(@, i)]
        /\ \E parent \in ParentValues(m_parents, node) :
             walk' = [walk EXCEPT ![i].last_node = node,
                                  ![i].current_node = parent,
                                  ![i].pc = IF parent /= -1 THEN "increment" ELSE "exited"]
  /\ UNCHANGED <<distributed, inputs, stage, bounds, m_leaf_aabbs, m_mcodes, m_leafs, tree, built,
                 m_inner_aabbs, counters, arrivals>>

\* the exchanged coordinates of the box of node k reach memory
StoreArrives(k) ==
  /\ stage = "propagate_aabbs"
  /\ k \in DOMAIN in_flight
  /\ m_inner_aabbs' = [m_inner_aabbs EXCEPT ![k] = in_flight[k]]
  /\ in_flight' = [j \in DOMAIN in_flight \ {k} |-> in_flight[j]]
  /\ UNCHANGED <<distributed, inputs, stage, bounds, m_leaf_aabbs, m_mcodes, m_leafs, tree, built,
                 counters, walk, arrivals, stored_by>>

\* one step of the walk that starts at leaf i, on the device
WalkStepDevice(i) == WalkIncrement(i) \/ WalkPoll(i) \/ WalkStoreDevice(i)

InitDevice == Init /\ size <= MaxDeviceN

NextDevice ==
  \/ AssertFail
  \/ Allocate
  \/ TransformBoxes
  \/ ReduceRaja
  \/ ReduceSeq
  \/ GetMcodes
  \/ SortMcodesPairs
  \/ SortMcodesFallback
  \/ Reorder
  \/ \E i \in 0..(MaxDeviceN - 1) : BuildTreeTask(i)
  \/ StartPropagate
  \/ \E i \in 0..(MaxDeviceN - 1) : WalkIncrement(i)
  \/ \E i \in 0..(MaxDeviceN - 1) : WalkPoll(i)
  \/ \E i \in 0..(MaxDeviceN - 1) : WalkStoreDevice(i)
  \/ \E k \in 0..(MaxDeviceN - 1) : StoreArrives(k)
  \/ Finish

\* the build on the device: every thread of the kernel runs, and an exchanged
\* coordinate reaches memory
SpecDevice ==
  /\ InitDevice
  /\ [][NextDevice]_vars
  /\ \A i \in 0..(MaxDeviceN - 1) : WF_vars(WalkStepDevice(i))
  /\ \A k \in 0..(MaxDeviceN - 1) : WF_vars(StoreArrives(k))

\* ------------------------------------------------ DistributedClosestPoint

\* number of MPI ranks
MaxRanks == 3

tag_before == 1234

tag_after == 4321

Ranks == 0..(m_nranks - 1)

\* the BVH variables play no part in the exchange between the ranks
NoRadixTree ==
  /\ size = 0
  /\ boxes = << >>
  /\ scale_factor = 1
  /\ stage = "start"
  /\ bounds = InvalidBox
  /\ m_leaf_aabbs = << >>
  /\ m_mcodes = << >>
  /\ m_leafs = << >>
  /\ m_parents = << >>
  /\ m_left_children = << >>
  /\ m_right_children = << >>
  /\ m_inner_aabbs = << >>
  /\ built = {}
  /\ slot_writers = [parents |-> << >>, left_children |-> << >>, right_children |-> << >>]
  /\ counters = << >>
  /\ walk = << >>
  /\ arrivals = << >>
  /\ stored_by = << >>
  /\ in_flight = << >>

radix_tree == <<inputs, stage, bounds, m_leaf_aabbs, m_mcodes, m_leafs, tree, built,
                propagation>>

\* xfer_node of rank r: src_rank and the result fields, here the ranks whose
\* points have been searched for the batch, in the order they were
XferNode(r) == [src_rank |-> r, searched_by |-> << >>, intact |-> TRUE]

\* a conduit::Node that holds nothing yet
EmptyNode == [src_rank |-> -1, searched_by |-> << >>, intact |-> TRUE]

\* what a message can hold when its buffer was released before the send completed
Clobbered(nranks) ==
  {[src_rank |-> s, searched_by |-> << >>, intact |-> FALSE] : s \in 0..(nranks - 1)}

\* isend_using_schema: MPI_Isend out of the local n_msg, the request freed at once
\* and n_msg destroyed on return. The message holds the node if MPI copied the
\* buffer before it was released, and whatever the released memory holds if not.
isend_using_schema(node, dest, tag, comm) ==
  {[from |-> comm.rank, to |-> dest, tag |-> tag, data |-> d] :
     d \in {node} \cup Clobbered(comm.size)}

\* conduit::relay::mpi::recv_using_schema(node, src, tag, comm): the messages it matches
recv_using_schema(net, src, tag, comm) ==
  {m \in net : m.from = src /\ m.to = comm.rank /\ m.tag = tag}

\* computeLocalClosestPoints: the points of this rank are searched for the batch
computeLocalClosestPoints(node, rank) == [node EXCEPT !.searched_by = Append(@, rank)]

MPI_COMM_WORLD(r) == [rank |-> r, size |-> m_nranks]

dst_rank(r, i) == (r + i) % m_nranks

rec_rank(r, i) == (r - i + m_nranks) % m_nranks

InitRanks ==
  /\ NoRadixTree
  /\ m_nranks \in 1..MaxRanks
  /\ ranks = [r \in Ranks |-> [pc |-> "start", i |-> 1, xfer_node |-> XferNode(r),
                                rec_node |-> EmptyNode, proc_node |-> EmptyNode]]
  /\ network = {}

\* computeLocalClosestPoints(xfer_node, true); if(m_nranks > 1) for(int i = 1; ...
ComputeLocal(r) ==
  /\ r \in Ranks
  /\ ranks[r].pc = "start"
  /\ ranks' = [ranks EXCEPT
                 ![r].xfer_node = computeLocalClosestPoints(@, r),
                 ![r].pc = IF m_nranks > 1 THEN "send_query" ELSE "done"]
  /\ UNCHANGED <<radix_tree, m_nranks, network>>

\* isend_using_schema(xfer_node, dst_rank, tag_before, MPI_COMM_WORLD)
SendQuery(r) ==
  /\ r \in Ranks
  /\ ranks[r].pc = "send_query"
  /\ \E m \in isend_using_schema(ranks[r].xfer_node, dst_rank(r, ranks[r].i),
                                  tag_before, MPI_COMM_WORLD(r)) :
       network' = network \cup {m}
  /\ ranks' = [ranks EXCEPT ![r].pc = "recv_query"]
  /\ UNCHANGED <<radix_tree, m_nranks>>

\* recv_using_schema(rec_node, rec_rank, tag_before, MPI_COMM_WORLD): blocks until
\* a message matches
RecvQuery(r) ==
  /\ r \in Ranks
  /\ ranks[r].pc = "recv_query"
  /\ \E m \in recv_using_schema(network, rec_rank(r, ranks[r].i), tag_before,
                                 MPI_COMM_WORLD(r)) :
       /\ network' = network \ {m}
       /\ ranks' = [ranks EXCEPT ![r].rec_node = m.data, ![r].pc = "search"]
  /\ UNCHANGED <<radix_tree, m_nranks>>

\* computeLocalClosestPoints(rec_node, false)
SearchReceived(r) ==
  /\ r \in Ranks
  /\ ranks[r].pc = "search"
  /\ ranks' = [ranks EXCEPT ![r].rec_node = computeLocalClosestPoints(@, r),
                            ![r].pc = "send_result"]
  /\ UNCHANGED <<radix_tree, m_nranks, network>>

\* isend_using_schema(rec_node, src_rank, tag_after, MPI_COMM_WORLD), with
\* src_rank = rec_node["src_rank"]
SendResult(r) ==
  /\ r \in Ranks
  /\ ranks[r].pc = "send_result"
  /\ \E m \in isend_using_schema(ranks[r].rec_node, ranks[r].rec_node.src_rank,
                                  tag_after, MPI_COMM_WORLD(r)) :
       network' = network \cup {m}
  /\ ranks' = [ranks EXCEPT ![r].pc = "recv_result"]
  /\ UNCHANGED <<radix_tree, m_nranks>>

\* recv_using_schema(proc_node, dst_rank, tag_after, MPI_COMM_WORLD)
RecvResult(r) ==
  /\ r \in Ranks
  /\ ranks[r].pc = "recv_result"
  /\ \E m \in recv_using_schema(network, dst_rank(r, ranks[r].i), tag_after,
                                 MPI_COMM_WORLD(r)) :
       /\ network' = network \ {m}
       /\ ranks' = [ranks EXCEPT ![r].proc_node = m.data, ![r].pc = "copy"]
  /\ UNCHANGED <<radix_tree, m_nranks>>

\* copy data to mesh_node from proc_node: cp_rank, cp_index, closest_point
CopyResults(r) ==
  /\ r \in Ranks
  /\ ranks[r].pc = "copy"
  /\ ranks' = [ranks EXCEPT
                 ![r].xfer_node = [@ EXCEPT !.searched_by = ranks[r].proc_node.searched_by,
                                            !.intact = ranks[r].proc_node.intact],
                 ![r].pc = "barrier"]
  /\ UNCHANGED <<radix_tree, m_nranks, network>>

\* MPI_Barrier(MPI_COMM_WORLD): every rank has reached it; ++i and the next round
Barrier ==
  /\ Ranks /= {}
  /\ \A r \in Ranks : ranks[r].pc = "barrier"
  /\ ranks' = [r \in Ranks |->
                 [ranks[r] EXCEPT
                    !.i = @ + 1,
                    !.rec_node = EmptyNode,
                    !.proc_node = EmptyNode,
                    !.pc = IF ranks[r].i + 1 < m_nranks THEN "send_query" ELSE "done"]]
  /\ UNCHANGED <<radix_tree, m_nranks, network>>

\* one step of computeClosestPoints on rank r
RankStep(r) ==
  \/ ComputeLocal(r)
  \/ SendQuery(r)
  \/ RecvQuery(r)
  \/ SearchReceived(r)
  \/ SendResult(r)
  \/ RecvResult(r)
  \/ CopyResults(r)

NextRanks == (\E r \in 0..(MaxRanks - 1) : RankStep(r)) \/ Barrier

\* every rank runs, a receive that a message matches returns, the barrier opens
SpecRanks ==
  /\ InitRanks
  /\ [][NextRanks]_vars
  /\ \A r \in 0..(MaxRanks - 1) : WF_vars(RankStep(r))
  /\ WF_vars(Barrier)

\* ------------------------------------------------ build_tree on its own

\* entry of build_tree(data) on an allocated tree of size leaves whose code array
\* holds any non-decreasing codes; the leaf boxes play no part in build_tree and
\* are as allocate left them
InitCodes ==
  /\ size \in 1..MaxCodeN
  /\ boxes = << >>
  /\ scale_factor = 1
  /\ stage = "build_tree"
  /\ bounds = InvalidBox
  /\ m_leaf_aabbs = [i \in Leaves |-> InvalidBox]
  /\ m_mcodes \in {c \in [Leaves -> CodePool] : \A k \in 0..(size - 2) : c[k] <= c[k + 1]}
  /\ m_leafs = [i \in Leaves |-> 0]
  /\ m_parents = [k \in Nodes |-> Unwritten]
  /\ m_left_children = [k \in Inner |-> Unwritten]
  /\ m_right_children = [k \in Inner |-> Unwritten]
  /\ m_inner_aabbs = [k \in Inner |-> InvalidBox]
  /\ built = {}
  /\ slot_writers = [parents |-> [k \in Nodes |-> {}],
                     left_children |-> [k \in Inner |-> {}],
                     right_children |-> [k \in Inner |-> {}]]
  /\ counters = << >>
  /\ walk = << >>
  /\ arrivals = << >>
  /\ stored_by = << >>
  /\ in_flight = << >>
  /\ m_nranks = 0
  /\ ranks = << >>
  /\ network = {}

\* the tasks of the for_all of build_tree, in any order
NextCodes == \E i \in 0..(MaxCodeN - 2) : BuildTreeTask(i)

SpecCodes == InitCodes /\ [][NextCodes]_vars

\* for_all runs its tasks: while a task is left to run, one runs
SpecCodesFair == InitCodes /\ [][NextCodes]_vars /\ WF_vars(NextCodes)

\* ------------------------------------------------ get_mcodes on its own

\* entry of get_mcodes on an allocated tree whose leaf boxes are any input boxes
\* and whose argument bounds is any box
InitMcodes ==
  /\ size \in 1..MaxMcodesN
  /\ boxes = << >>
  /\ scale_factor = 1
  /\ stage = "get_mcodes"
  /\ bounds \in BoundsPool
  /\ m_leaf_aabbs \in [Leaves -> InputBoxes]
  /\ m_mcodes = [i \in Leaves |-> 0]
  /\ m_leafs = [i \in Leaves |-> 0]
  /\ m_parents = [k \in Nodes |-> Unwritten]
  /\ m_left_children = [k \in Inner |-> Unwritten]
  /\ m_right_children = [k \in Inner |-> Unwritten]
  /\ m_inner_aabbs = [k \in Inner |-> InvalidBox]
  /\ built = {}
  /\ slot_writers = [parents |-> [k \in Nodes |-> {}],
                     left_children |-> [k \in Inner |-> {}],
                     right_children |-> [k \in Inner |-> {}]]
  /\ counters = << >>
  /\ walk = << >>
  /\ arrivals = << >>
  /\ stored_by = << >>
  /\ in_flight = << >>
  /\ m_nranks = 0
  /\ ranks = << >>
  /\ network = {}

NextMcodes == GetMcodes

SpecMcodes == InitMcodes /\ [][NextMcodes]_vars

\* ------------------------------------------------------------ properties

\* build_tree has returned
AfterBuildTree == stage \in {"propagate_aabbs", "done"}

\* the box of node k: the leaf box of a leaf, the stored box of an internal node
NodeBox(k) ==
  IF k >= m_inner_size THEN m_leaf_aabbs[k - m_inner_size] ELSE m_inner_aabbs[k]

SetMin(S) == CHOOSE m \in S : \A x \in S : m <= x

SetMax(S) == CHOOSE m \in S : \A x \in S : m >= x

IsPermutation(f, n) == DOMAIN f = 0..(n - 1) /\ Range(f) = 0..(n - 1)

\* the nodes met by following left and right children from k, in preorder;
\* fuel cuts a chain that does not end
RECURSIVE Preorder(_, _)
Preorder(k, fuel) ==
  IF fuel = 0 \/ k \notin Inner THEN <<k>>
  ELSE <<k>> \o Preorder(m_left_children[k], fuel - 1)
             \o Preorder(m_right_children[k], fuel - 1)

\* the internal nodes that name k as a child
ParentsOf(k) == {i \in Inner : m_left_children[i] = k \/ m_right_children[i] = k}

\* C1: once propagate_aabbs has completed, whatever the interleaving of the leaf
\* walks was, the stored box of every internal node is the union of the boxes of
\* its left and right child (leaf box for a leaf, stored box for an internal node).
C1_InnerBoxIsUnionOfChildren ==
  stage = "done" =>
    \A k \in Inner :
      m_inner_aabbs[k] = addBox(NodeBox(m_left_children[k]), NodeBox(m_right_children[k]))

\* a completed build in which some internal node has two internal children
C1_Witness ==
  /\ stage = "done"
  /\ \E k \in Inner : m_left_children[k] \in Inner /\ m_right_children[k] \in Inner

\* C2: for every input of n >= 1 boxes, build_tree leaves n-1 internal nodes and n
\* leaves that form a strictly binary tree: every internal node has one left and
\* one right child, every node but node 0 has exactly one parent, and node 0 is
\* the only node whose parent entry is -1.
C2_StrictlyBinaryTree ==
  AfterBuildTree =>
    /\ DOMAIN m_left_children = Inner
    /\ DOMAIN m_right_children = Inner
    /\ DOMAIN m_parents = Nodes
    /\ \A i \in Inner :
         /\ m_left_children[i] \in Nodes
         /\ m_right_children[i] \in Nodes
         /\ m_left_children[i] /= m_right_children[i]
    /\ \A k \in Nodes \ {0} : ParentsOf(k) = {m_parents[k]}
    /\ {k \in Nodes : m_parents[k] = -1} = {0}

\* the statement of C2 for the inputs with at least two boxes
C2_StrictlyBinaryTreeFromTwo == size >= 2 => C2_StrictlyBinaryTree

\* C3: the child arrays written by build_tree are connected and acyclic: following
\* left and right children from node 0 meets each of the 2n-1 nodes exactly once.
C3_ConnectedAcyclic ==
  AfterBuildTree =>
    LET visit == Preorder(0, size + m_inner_size)
    IN /\ Len(visit) = size + m_inner_size
       /\ Range(visit) = Nodes

\* a built tree of four leaves whose root has an internal node on either side
C3_Witness ==
  /\ AfterBuildTree
  /\ size = 4
  /\ m_left_children[0] \in Inner
  /\ m_right_children[0] \in Inner

\* C4: at every internal node the arrivals are ordered by the increment: the
\* first sees 0 and stops there for good, still holding the box of the child it
\* came from and having stored nothing; the second sees 1, is the one that stores
\* the node's box, and goes on; nobody else arrives.
C4_FirstStopsSecondStores ==
  AfterBuildTree =>
    \A k \in Inner :
      /\ Len(arrivals[k]) <= 2
      /\ \A m \in 1..Len(arrivals[k]) : arrivals[k][m].old = m - 1
      /\ Len(arrivals[k]) >= 1 =>
           LET first == arrivals[k][1].leaf
           IN /\ walk[first].pc = "killed"
              /\ walk[first].current_node = k
              /\ walk[first].aabb = NodeBox(walk[first].last_node)
              /\ \A m \in 1..Len(stored_by[k]) : stored_by[k][m] /= first
      /\ Len(arrivals[k]) = 2 =>
           LET second == arrivals[k][2].leaf
           IN /\ second /= arrivals[k][1].leaf
              /\ \/ walk[second].current_node = k /\ walk[second].pc \in {"load", "store"}
                 \/ stored_by[k] = <<second>>
      /\ stage = "done" => Len(arrivals[k]) = 2 /\ Len(stored_by[k]) = 1

\* both walks have arrived at the root of a tree with at least three leaves
C4_Witness ==
  /\ AfterBuildTree
  /\ size >= 3
  /\ Len(arrivals[0]) = 2
  /\ stored_by[0] /= << >>

\* the child of walk i's current node that i did not come from
SiblingOf(i) ==
  OtherChild(m_left_children[walk[i].current_node],
             m_right_children[walk[i].current_node], walk[i].last_node)

\* C5: a second arrival that is about to read an internal sibling's box finds it
\* stored already, not the sentinel; and every walk that increments a node's
\* counter coming from an internal child has stored that child's box before.
C5_SiblingStoredBeforeRead ==
  AfterBuildTree =>
    /\ \A i \in Leaves :
         (walk[i].pc = "load" /\ SiblingOf(i) \in Inner) =>
           /\ stored_by[SiblingOf(i)] /= << >>
           /\ m_inner_aabbs[SiblingOf(i)] /= InvalidBox
    /\ \A k \in Inner : \A m \in 1..Len(arrivals[k]) :
         arrivals[k][m].from \in Inner =>
           /\ stored_by[arrivals[k][m].from] /= << >>
           /\ m_inner_aabbs[arrivals[k][m].from] /= InvalidBox

\* a second arrival is about to read the box of an internal sibling
C5_Witness ==
  /\ stage = "propagate_aabbs"
  /\ \E i \in Leaves : walk[i].pc = "load" /\ SiblingOf(i) \in Inner

C6_CounterRange ==
  /\ \A k \in DOMAIN counters : counters[k] \in 0..2
  /\ stage = "done" =>
       \A k \in Inner :
         /\ counters[k] = 2
         /\ {arrivals[k][m].from : m \in 1..Len(arrivals[k])}
              = {m_left_children[k], m_right_children[k]}

C6_CounterStep ==
  counters' /= counters =>
    IF stage = "build_tree"
    THEN \A k \in DOMAIN counters' : counters'[k] = 0
    ELSE \E k \in DOMAIN counters : counters' = [counters EXCEPT ![k] = counters[k] + 1]

\* C6: every visit counter starts at 0, changes only by an increment of 1, never
\* exceeds 2, and at completion has been incremented exactly twice, once by the
\* walk coming from each child.
C6_CounterIncrementedTwice == [](C6_CounterRange) /\ [][C6_CounterStep]_vars

\* a completed build of at least three leaves: every counter is at 2
C6_Witness ==
  /\ stage = "done"
  /\ size >= 3
  /\ \A k \in Inner : counters[k] = 2

C7_StoredOnce ==
  AfterBuildTree =>
    /\ \A k \in Inner :
         /\ Len(stored_by[k]) <= 1
         /\ stored_by[k] = << >> <=> m_inner_aabbs[k] = InvalidBox
    /\ stage = "done" => \A k \in Inner : Len(stored_by[k]) = 1

C7_StoreStep ==
  stage = "propagate_aabbs" =>
    \A k \in Inner :
      m_inner_aabbs'[k] /= m_inner_aabbs[k] =>
        /\ m_inner_aabbs[k] = InvalidBox
        /\ stored_by[k] = << >>
        /\ Len(stored_by'[k]) = 1

\* C7: during propagate_aabbs each internal box leaves its sentinel value exactly
\* once, written by one walk, and is not written again; at completion every one
\* of the n-1 internal nodes has had exactly one store.
C7_InnerBoxWrittenOnce == [](C7_StoredOnce) /\ [][C7_StoreStep]_vars

\* a completed build of at least three leaves, its boxes stored by two or more walks
C7_Witness ==
  /\ stage = "done"
  /\ size >= 3
  /\ \E k1, k2 \in Inner : stored_by[k1] /= << >> /\ stored_by[k2] /= << >>
                            /\ stored_by[k1] /= stored_by[k2]

\* C8: after build_radix_tree the box of node 0 equals bounds, and bounds is the
\* union of all leaf boxes.
C8_RootBoxIsGlobalBounds ==
  stage = "done" =>
    /\ NodeBox(0) = bounds
    /\ bounds = Box([d \in Dims |-> SetMin({m_leaf_aabbs[i].min[d] : i \in Leaves})],
                    [d \in Dims |-> SetMax({m_leaf_aabbs[i].max[d] : i \in Leaves})])

\* a completed build of at least three boxes, no single one of which spans bounds
C8_Witness ==
  /\ stage = "done"
  /\ size >= 3
  /\ \A i \in Leaves : m_leaf_aabbs[i] /= bounds

\* C9: from reorder on, m_leafs is a permutation of 0..n-1, the leaf box at sorted
\* position k is the scaled copy of input box m_leafs[k], and putting each sorted
\* box back at position m_leafs[k] gives the array transform_boxes produced.
C9_LeafsGatherRoundTrip ==
  stage \in {"build_tree", "propagate_aabbs", "done"} =>
    /\ IsPermutation(m_leafs, size)
    /\ \A k \in Leaves : m_leaf_aabbs[k] = scale(boxes[m_leafs[k]], scale_factor)
    /\ [i \in Leaves |-> m_leaf_aabbs[CHOOSE k \in Leaves : m_leafs[k] = i]]
         = transform_boxes(boxes, size, scale_factor)

\* a completed build whose permutation is not its own inverse
C9_Witness ==
  /\ stage = "done"
  /\ \E k \in Leaves : m_leafs[m_leafs[k]] /= k

\* the code array as get_mcodes left it (the leaf boxes are not yet reordered)
CodesBeforeSort == get_mcodes(m_leaf_aabbs, size, bounds)

\* C10: when sort_mcodes returns, in either variant, the code array is
\* non-decreasing, m_leafs is a permutation of 0..n-1, and the code at position k
\* is the code that was at position m_leafs[k] before the call.
C10_SortedCodesMatchPermutation ==
  stage = "reorder" =>
    /\ \A k \in 0..(size - 2) : m_mcodes[k] <= m_mcodes[k + 1]
    /\ IsPermutation(m_leafs, size)
    /\ \A k \in Leaves : m_mcodes[k] = CodesBeforeSort[m_leafs[k]]

\* sort_mcodes has returned for codes that were out of order and hold a duplicate
C10_Witness ==
  /\ stage = "reorder"
  /\ \E k \in 0..(size - 2) : CodesBeforeSort[k] > CodesBeforeSort[k + 1]
  /\ \E k1, k2 \in Leaves : k1 /= k2 /\ m_mcodes[k1] = m_mcodes[k2]
  /\ \E k \in Leaves : m_leafs[k] /= k

\* C11: sort_mcodes is stable, in either variant: when it returns, two sorted
\* positions k1 < k2 that hold equal codes hold original indices in increasing
\* order, m_leafs[k1] < m_leafs[k2]; the permutation and the codes stay so for the
\* rest of the build.
C11_SortIsStable ==
  stage \in {"reorder", "build_tree", "propagate_aabbs", "done"} =>
    \A k1, k2 \in Leaves :
      (k1 < k2 /\ m_mcodes[k1] = m_mcodes[k2]) => m_leafs[k1] < m_leafs[k2]

\* sort_mcodes has returned for codes that were out of order, where two equal
\* codes were moved and a third position holds the same code
C11_Witness ==
  /\ stage = "reorder"
  /\ \E k \in 0..(size - 2) : CodesBeforeSort[k] > CodesBeforeSort[k + 1]
  /\ \E k1, k2 \in Leaves :
       /\ k1 < k2
       /\ m_mcodes[k1] = m_mcodes[k2]
       /\ m_leafs[k1] /= k1
       /\ m_leafs[k2] /= k2

\* the orderings of n array slots, for n up to the largest input
AllOrderings ==
  [n \in 0..MaxN |-> {p \in [0..(n - 1) -> 0..(n - 1)] : Range(p) = 0..(n - 1)}]

\* C12: reduce returns the union of all n boxes it is given: on every axis the
\* minimum of their minima and the maximum of their maxima; and both variants
\* return that same box for every ordering of the boxes in the array.
C12_ReduceIsOrderIndependentUnion ==
  stage = "get_mcodes" =>
    /\ \A d \in Dims :
         /\ bounds.min[d] = SetMin({m_leaf_aabbs[i].min[d] : i \in Leaves})
         /\ bounds.max[d] = SetMax({m_leaf_aabbs[i].max[d] : i \in Leaves})
    /\ \A p \in AllOrderings[size] :
         LET reordered == [i \in Leaves |-> m_leaf_aabbs[p[i]]]
         IN /\ reduce_raja(reordered, size) = bounds
            /\ reduce_seq(reordered, size) = bounds

\* reduce has returned for three or more distinct boxes none of which is the
\* union, with the minimum of some axis held only by the first box
C12_Witness ==
  /\ stage = "get_mcodes"
  /\ size >= 3
  /\ \A i, k \in Leaves : i /= k => m_leaf_aabbs[i] /= m_leaf_aabbs[k]
  /\ \A i \in Leaves : m_leaf_aabbs[i] /= bounds
  /\ \E d \in Dims : \A i \in Leaves \ {0} : m_leaf_aabbs[0].min[d] < m_leaf_aabbs[i].min[d]

\* the nodes met by following parent entries up from k; fuel cuts a chain that
\* does not end
RECURSIVE AncestorsOf(_, _)
AncestorsOf(k, fuel) ==
  IF fuel = 0 \/ m_parents[k] \notin Nodes THEN {}
  ELSE {m_parents[k]} \cup AncestorsOf(m_parents[k], fuel - 1)

\* C13: build_tree tolerates duplicate Morton codes: for every non-decreasing code
\* array of n >= 2 codes, all codes identical included, no task fails to end or
\* writes outside the arrays, and once every task has run the tree is well
\* formed: each internal node has two distinct children among the nodes, every
\* leaf and every internal node other than node 0 has been given exactly one
\* parent, and no node is its own ancestor.
C13_DuplicateCodesWellFormed ==
  size >= 2 =>
    /\ stage = "build_tree"
    /\ built = Inner =>
         /\ \A i \in Inner :
              /\ m_left_children[i] \in Nodes
              /\ m_right_children[i] \in Nodes
              /\ m_left_children[i] /= m_right_children[i]
         /\ \A k \in Nodes \ {0} :
              /\ ParentsOf(k) = {m_parents[k]}
              /\ Cardinality(slot_writers.parents[k]) = 1
         /\ \A k \in Nodes : k \notin AncestorsOf(k, size + m_inner_size)

\* every task has run on an array of four or more codes that are all identical
C13_Witness ==
  /\ size >= 4
  /\ built = Inner
  /\ \A k \in Leaves : m_mcodes[k] = m_mcodes[0]
  /\ \A i \in Inner : i \in slot_writers.left_children[i]

\* C14: for n = 1 the build leaves a single leaf and no internal node: build_tree
\* runs no per-node task, node 0 (the only leaf) carries the parent sentinel -1,
\* and the walk of propagate_aabbs from that leaf ends at once, touching no
\* internal node and no counter.
C14_SingleLeafBuild ==
  (size = 1 /\ AfterBuildTree) =>
    /\ built = {}
    /\ Inner = {}
    /\ m_parents[0] = -1
    /\ walk[0].pc = "exited"
    /\ walk[0].current_node = -1

\* the walk of the single leaf of a one-box build went on to a counter that
\* does not exist
C14_WalkReachesMissingCounter ==
  size = 1 /\ AfterBuildTree /\ walk[0].pc = "out_of_bounds"

\* the arrays left by the tasks of the nodes in done, run one after the other in
\* increasing node order from i on
RECURSIVE RunTasksInOrder(_, _, _, _, _)
RunTasksInOrder(i, done, inner_size, mcodes, arrays) ==
  IF i >= inner_size THEN arrays
  ELSE IF i \notin done THEN RunTasksInOrder(i + 1, done, inner_size, mcodes, arrays)
  ELSE LET r == NodeRange(i, inner_size, mcodes)
       IN RunTasksInOrder(i + 1, done, inner_size, mcodes,
                          AssignChildren(i, r.j, r.split, inner_size, arrays))

\* the arrays of the tree as allocate leaves them
AllocatedArrays ==
  [parents |-> [k \in Nodes |-> Unwritten],
   left_children |-> [k \in Inner |-> Unwritten],
   right_children |-> [k \in Inner |-> Unwritten]]

\* C15: radix-tree construction is deterministic: for a fixed sorted code array,
\* whatever the order in which the per-node tasks have run, the parent, left and
\* right arrays hold what running the same tasks one by one in increasing node
\* order leaves; so the final arrays are the same for every order.
C15_BuildTreeDeterministic ==
  LET sequential == RunTasksInOrder(0, built, m_inner_size, m_mcodes, AllocatedArrays)
  IN /\ m_parents = sequential.parents
     /\ m_left_children = sequential.left_children
     /\ m_right_children = sequential.right_children

\* on five or more codes with a duplicate, every task but that of node 0
\* has run
C15_Witness ==
  /\ size >= 5
  /\ built = Inner \ {0}
  /\ \E k \in 0..(size - 2) : m_mcodes[k] = m_mcodes[k + 1]
  /\ \E k \in 0..(size - 2) : m_mcodes[k] /= m_mcodes[k + 1]
  /\ m_parents[0] = Unwritten

\* C16: no two per-node tasks of build_tree ever write the same slot of the
\* parent, left or right array: the slots lchildren[i] and rchildren[i] are
\* written by task i alone, each parent slot is written by at most one task, and
\* parent[0] is written only by task 0, which stores the sentinel -1 there.
C16_NoTwoTasksWriteOneSlot ==
  /\ \A i \in Inner :
       /\ slot_writers.left_children[i] \subseteq {i}
       /\ slot_writers.right_children[i] \subseteq {i}
  /\ \A k \in Nodes : Cardinality(slot_writers.parents[k]) <= 1
  /\ slot_writers.parents[0] \subseteq {0}
  /\ 0 \in slot_writers.parents[0] => m_parents[0] = -1

\* every task has run on five or more codes: each slot of the three arrays has
\* its one writer, and an internal node other than 0 has an internal parent
C16_Witness ==
  /\ size >= 5
  /\ built = Inner
  /\ \A i \in Inner : slot_writers.left_children[i] = {i}
  /\ \A k \in Nodes : Cardinality(slot_writers.parents[k]) = 1
  /\ \E k \in Inner \ {0} : slot_writers.parents[k] /= {0}

\* the stages of build_radix_tree in the order of its statements
StageOrder ==
  <<"start", "transform_boxes", "reduce", "get_mcodes", "sort_mcodes", "reorder",
    "build_tree", "propagate_aabbs", "done">>

StageRank(s) == CHOOSE k \in 1..Len(StageOrder) : StageOrder[k] = s

\* a step stays in its stage or enters the stage that follows it (or leaves the
\* start on the failed assertion)
C17_StageStep ==
  \/ stage' = stage
  \/ stage = "start" /\ stage' = "aborted"
  \/ /\ stage \in Range(StageOrder)
     /\ stage' \in Range(StageOrder)
     /\ StageRank(stage') = StageRank(stage) + 1

\* no task of build_tree has run before build_tree is entered and every one has
\* when propagate_aabbs starts; no walk exists before propagate_aabbs is entered
\* and every walk has ended when the build returns
C17_StageBarriers ==
  /\ stage \in Range(StageOrder) \cup {"aborted"}
  /\ (stage \in Range(StageOrder) /\ StageRank(stage) < StageRank("build_tree")) =>
       built = {}
  /\ (stage \in Range(StageOrder) /\ StageRank(stage) < StageRank("propagate_aabbs")) =>
       (walk = << >> /\ counters = << >>)
  /\ stage \in {"propagate_aabbs", "done"} => built = Inner
  /\ stage = "done" => \A i \in Leaves : walk[i].pc \in {"killed", "exited"}

\* C17: build_radix_tree runs its stages in the fixed order transform_boxes,
\* reduce, get_mcodes, sort_mcodes, reorder, build_tree, propagate_aabbs: every
\* task of a stage has finished before any task of the next stage starts, and a
\* stage is never entered again once a later one has begun.
C17_StagesInFixedOrder == [](C17_StageBarriers) /\ [][C17_StageStep]_vars

\* a build of three or more boxes has gone through every stage and returned
C17_Witness ==
  /\ stage = "done"
  /\ size >= 3
  /\ built = Inner
  /\ \E i \in Leaves : walk[i].pc = "exited"

\* no array of the tree has been allocated or written
NothingAllocated ==
  /\ m_leaf_aabbs = << >>
  /\ m_mcodes = << >>
  /\ m_leafs = << >>
  /\ m_parents = << >>
  /\ m_left_children = << >>
  /\ m_right_children = << >>
  /\ m_inner_aabbs = << >>
  /\ counters = << >>

\* the part of C18 about the violated precondition: a call with size <= 0 only
\* ever fails the assertion, with no array allocated or written, and nothing but
\* the assertion aborts a build
C18_InvalidSizeAbortsBeforeAllocation ==
  /\ size <= 0 => (stage \in {"start", "aborted"} /\ NothingAllocated)
  /\ stage = "aborted" => (size <= 0 /\ NothingAllocated)

\* C18: a call with size <= 0 fails the size > 0 assertion before any tree array
\* is allocated or written; a build either fully completes or aborts on that
\* assertion (it takes no other end: no task of it stops on an access outside
\* the arrays or in a loop that does not end), and no partially populated tree
\* is left after a precondition violation.
C18_CompletesOrAbortsOnAssert ==
  /\ C18_InvalidSizeAbortsBeforeAllocation
  /\ stage \notin {"hung", "out_of_bounds"}
  /\ stage = "propagate_aabbs" => \A i \in Leaves : walk[i].pc /= "out_of_bounds"

\* from the return of transform_boxes until reorder, slot i of the leaf array is
\* the scaled copy of input box i; from the return of reorder on, slot k is the
\* scaled copy of input box m_leafs[k]
C19_LeafArrayIsCopy ==
  /\ stage \in {"reduce", "get_mcodes", "sort_mcodes", "reorder"} =>
       \A i \in Leaves : m_leaf_aabbs[i] = scale(boxes[i], scale_factor)
  /\ stage \in {"build_tree", "propagate_aabbs", "done"} =>
       \A k \in Leaves : m_leaf_aabbs[k] = scale(boxes[m_leafs[k]], scale_factor)

\* no step changes the caller's collection (or the other arguments passed by value)
C19_InputStep == boxes' = boxes /\ size' = size /\ scale_factor' = scale_factor

\* C19: build_radix_tree never writes to the caller's input box collection:
\* transform_boxes copies (and scales) each input box i into slot i of the tree's
\* own leaf array, and only that copy is later reordered.
C19_InputBoxesUntouched == [](C19_LeafArrayIsCopy) /\ [][C19_InputStep]_vars

\* a completed build with scale factor 3 in which the leaf array was reordered:
\* every slot of it differs from the same slot of the input
C19_Witness ==
  /\ stage = "done"
  /\ scale_factor = 3
  /\ \E k \in Leaves : m_leafs[k] /= k
  /\ \A k \in Leaves : m_leaf_aabbs[k] /= boxes[k]

\* the k leading bits of x, a value below 2^(WordBits - 1) held in a word of
\* WordBits bits (its first bit is 0)
LeadingBits(x, k) == IF k <= 1 THEN 0 ELSE x \div Pow2(WordBits - k)

\* x and y agree on their k leading bits and differ in the next one
AgreeOnExactly(x, y, k) ==
  /\ k \in 0..(WordBits - 1)
  /\ LeadingBits(x, k) = LeadingBits(y, k)
  /\ LeadingBits(x, k + 1) /= LeadingBits(y, k + 1)

\* C20: for every position a of the code array, delta(a, b) is -1 whenever b is
\* outside [0, n-1], and the code array is then read at in-range positions only;
\* for in-range b with a different code it is the number of leading zero bits of
\* the XOR of the two codes (the number of leading bits they agree on), within
\* 0..31; for in-range b /= a with the same code it is 32 plus the leading zeros
\* of a XOR b. So a delta over equal codes is larger than any delta over
\* different codes, and an out-of-range delta is smaller than every in-range
\* delta.
C20_DeltaValues ==
  \A a \in Leaves :
    /\ \A b \in {-2, -1, size, size + 1} :
         /\ delta(a, b, m_inner_size, m_mcodes) = -1
         /\ delta_bb(b, m_inner_size) \in DOMAIN m_mcodes
    /\ \A b \in Leaves :
         \E dl \in {delta(a, b, m_inner_size, m_mcodes)} :
           /\ delta_bb(b, m_inner_size) = b
           /\ dl > delta(a, -1, m_inner_size, m_mcodes)
           /\ dl > delta(a, size, m_inner_size, m_mcodes)
           /\ m_mcodes[a] /= m_mcodes[b] => AgreeOnExactly(m_mcodes[a], m_mcodes[b], dl)
           /\ (b /= a /\ m_mcodes[a] = m_mcodes[b]) =>
                /\ AgreeOnExactly(a, b, dl - WordBits)
                /\ \A c \in Leaves :
                     m_mcodes[a] /= m_mcodes[c] => dl > delta(a, c, m_inner_size, m_mcodes)

\* a task has run on an array where some code has an equal neighbour on one
\* side, a different one on the other, and the last position is a task's
\* neighbour
C20_Witness ==
  /\ size >= 4
  /\ \E a \in built :
       /\ a >= 1
       /\ m_mcodes[a] = m_mcodes[a - 1]
       /\ m_mcodes[a] /= m_mcodes[a + 1]
  /\ (size - 2) \in built
  /\ m_mcodes[size - 1] >= Pow2(WordBits - 2)

\* the range length a linear scan finds: offsets are tried one by one from l + 1
\* until delta(i, i + l*d) is no longer above min_delta
RECURSIVE LinearRangeLength(_, _, _, _)
LinearRangeLength(i, d, min_delta, l) ==
  IF delta(i, i + (l + 1) * d, m_inner_size, m_mcodes) > min_delta
  THEN LinearRangeLength(i, d, min_delta, l + 1)
  ELSE l

\* C21: for every internal node i of a sorted code array (each node whose task
\* has run), the direction d is -1 when delta(i, i+1) < delta(i, i-1) and +1
\* otherwise, and the doubling-then-halving search gives the range length of a
\* linear scan, the largest l with delta(i, i + l*d) > delta(i, i-d); the far
\* endpoint j = i + l*d lies in [0, n-1], and node 0 gets d = +1 and j = n-1.
C21_RangeSearchIsLinearScan ==
  \A i \in built :
    \E r \in {NodeRange(i, m_inner_size, m_mcodes)} :
      \E min_delta \in {delta(i, i - r.d, m_inner_size, m_mcodes)} :
        /\ r.d = IF delta(i, i + 1, m_inner_size, m_mcodes)
                     < delta(i, i - 1, m_inner_size, m_mcodes)
                 THEN -1 ELSE 1
        /\ r.l = LinearRangeLength(i, r.d, min_delta, 0)
        /\ r.l = SetMax({l \in 0..size :
                           delta(i, i + l * r.d, m_inner_size, m_mcodes) > min_delta})
        /\ r.j = i + r.l * r.d
        /\ r.j \in Leaves
        /\ i = 0 => (r.d = 1 /\ r.j = size - 1)

\* the tasks of two nodes have run whose ranges are three or more steps long,
\* one in each direction, and one of them is not node 0
C21_Witness ==
  /\ \E i \in built \ {0} :
       \E r \in {NodeRange(i, m_inner_size, m_mcodes)} : r.d = -1 /\ r.l >= 3
  /\ \E i \in built \ {0} :
       \E r \in {NodeRange(i, m_inner_size, m_mcodes)} : r.d = 1 /\ r.l >= 2

\* C22: for every internal node i with range endpoint j (each node whose task has
\* run), the step-halving split search finds the offset of a linear scan from i
\* in direction d: the largest s in [0, l-1] with delta(i, i + k*d) > delta(i, j)
\* for every offset k in 1..s; the split is i + s*d + min(d, 0) and satisfies
\* min(i, j) <= split < max(i, j).
C22_SplitSearchIsLinearScan ==
  \A i \in built :
    \E r \in {NodeRange(i, m_inner_size, m_mcodes)} :
      \E delta_node \in {delta(i, r.j, m_inner_size, m_mcodes)} :
        /\ r.s = SetMax({s \in 0..(r.l - 1) :
                           \A k \in 1..s :
                             delta(i, i + k * r.d, m_inner_size, m_mcodes) > delta_node})
        /\ r.split = i + r.s * r.d + Min2(r.d, 0)
        /\ Min2(i, r.j) <= r.split
        /\ r.split < Max2(i, r.j)

\* the tasks of two nodes have run whose ranges are three or more steps long with
\* the split two or more steps away, one in each direction
C22_Witness ==
  /\ \E i \in built :
       \E r \in {NodeRange(i, m_inner_size, m_mcodes)} : r.d = -1 /\ r.l >= 3 /\ r.s >= 2
  /\ \E i \in built :
       \E r \in {NodeRange(i, m_inner_size, m_mcodes)} : r.d = 1 /\ r.l >= 3 /\ r.s >= 2

\* C23: child assignment in build_tree, for every internal node i whose task has
\* run (all of them after the build): the left child is the leaf index
\* split + (n-1) exactly when min(i, j) = split and the internal node split
\* otherwise; the right child is the leaf index split + 1 + (n-1) exactly when
\* max(i, j) = split + 1 and the internal node split + 1 otherwise; the parent
\* entries of both children are i, and the two children differ.
C23_ChildAssignment ==
  \A i \in built :
    \E r \in {NodeRange(i, m_inner_size, m_mcodes)} :
      /\ m_left_children[i] = IF Min2(i, r.j) = r.split
                              THEN r.split + (size - 1) ELSE r.split
      /\ m_right_children[i] = IF Max2(i, r.j) = r.split + 1
                               THEN r.split + 1 + (size - 1) ELSE r.split + 1
      /\ (m_left_children[i] >= m_inner_size) <=> (Min2(i, r.j) = r.split)
      /\ (m_right_children[i] >= m_inner_size) <=> (Max2(i, r.j) = r.split + 1)
      /\ m_parents[m_left_children[i]] = i
      /\ m_parents[m_right_children[i]] = i
      /\ m_left_children[i] /= m_right_children[i]

\* the build is over on five or more codes: some node has two leaf children,
\* some has two internal children, some has one of each
C23_Witness ==
  /\ size >= 5
  /\ built = Inner
  /\ \E i \in Inner : m_left_children[i] >= m_inner_size /\ m_right_children[i] >= m_inner_size
  /\ \E i \in Inner : m_left_children[i] < m_inner_size /\ m_right_children[i] < m_inner_size
  /\ \E i \in Inner : m_left_children[i] < m_inner_size /\ m_right_children[i] >= m_inner_size

\* the sorted positions of the leaves met below node k, from left to right;
\* fuel cuts a chain that does not end
RECURSIVE InOrderLeaves(_, _)
InOrderLeaves(k, fuel) ==
  IF k >= m_inner_size THEN <<k - m_inner_size>>
  ELSE IF fuel = 0 \/ k \notin Inner THEN << >>
  ELSE InOrderLeaves(m_left_children[k], fuel - 1)
       \o InOrderLeaves(m_right_children[k], fuel - 1)

\* the positions lo, lo + 1, .., hi as a sequence
Ascending(lo, hi) == [k \in 1..(hi - lo + 1) |-> lo + k - 1]

\* C24: after build_tree on sorted codes, the leaves in the subtree of every
\* internal node i are exactly the sorted positions of the contiguous range
\* [min(i, j), max(i, j)], of which i is an endpoint; the subtree of its left
\* child holds exactly [min(i, j), split] and that of its right child exactly
\* [split + 1, max(i, j)], so the in-order traversal from the root visits the
\* leaves in ascending sorted position.
C24_SubtreesAreContiguousRanges ==
  built = Inner =>
    /\ \A i \in Inner :
         \E r \in {NodeRange(i, m_inner_size, m_mcodes)} :
           /\ i \in {Min2(i, r.j), Max2(i, r.j)}
           /\ Min2(i, r.j) < Max2(i, r.j)
           /\ InOrderLeaves(i, size) = Ascending(Min2(i, r.j), Max2(i, r.j))
           /\ InOrderLeaves(m_left_children[i], size) = Ascending(Min2(i, r.j), r.split)
           /\ InOrderLeaves(m_right_children[i], size)
                = Ascending(r.split + 1, Max2(i, r.j))
    /\ InOrderLeaves(0, size) = Ascending(0, size - 1)

\* the build is over on five or more codes with a duplicate; a node other than
\* the root covers three or more leaves and has the larger position as its own
C24_Witness ==
  /\ size >= 5
  /\ built = Inner
  /\ \E k \in 0..(size - 2) : m_mcodes[k] = m_mcodes[k + 1]
  /\ \E i \in Inner \ {0} : Len(InOrderLeaves(i, size)) >= 3 /\ InOrderLeaves(i, size)[1] < i - 1

\* the integer coordinate of dimension d held in a Morton code: bit k of it is
\* bit NDIMS*k + (d-1) of the code
RECURSIVE CoordInCode(_, _)
CoordInCode(code, d) ==
  IF code = 0 THEN 0
  ELSE ((code \div Pow2(d - 1)) % 2) + 2 * CoordInCode(code \div Pow2(NDIMS), d)

\* twice the centroid of leaf box i on axis d, from the lower bound of bounds
CentroidOffset2(i, d) == (m_leaf_aabbs[i].min[d] + m_leaf_aabbs[i].max[d]) - 2 * bounds.min[d]

\* twice the extent of bounds on axis d
Extent2(d) == 2 * (bounds.max[d] - bounds.min[d])

\* C25: morton32_encode clamps each scaled coordinate before truncating it: for
\* every normalised coordinate, values below 0 and values at or above 1 included,
\* the integer coordinate of each dimension lies in [0, 2^(32/D) - 1] (0 below 0,
\* the ceiling from 1 on, the truncated scaled value in between), so the code has
\* no bit outside the D fields of 32/D bits.
C25_CoordinatesClamped ==
  stage = "sort_mcodes" =>
    \A i \in Leaves :
      /\ m_mcodes[i] \in 0..(Pow2(NDIMS * NUM_BITS_PER_DIM) - 1)
      /\ \A d \in Dims :
           \E c \in {CoordInCode(m_mcodes[i], d)} :
             /\ c \in 0..(Pow2(NUM_BITS_PER_DIM) - 1)
             /\ Extent2(d) > 0 =>
                  /\ CentroidOffset2(i, d) < 0 => c = 0
                  /\ CentroidOffset2(i, d) >= Extent2(d) => c = Pow2(NUM_BITS_PER_DIM) - 1
                  /\ (CentroidOffset2(i, d) >= 0 /\ CentroidOffset2(i, d) < Extent2(d)) =>
                       /\ c * Extent2(d) <= CentroidOffset2(i, d) * Pow2(NUM_BITS_PER_DIM)
                       /\ (c + 1) * Extent2(d) > CentroidOffset2(i, d) * Pow2(NUM_BITS_PER_DIM)

\* get_mcodes has returned for a box with one normalised coordinate below 0, one
\* equal to 1 and one strictly between, and for another with one above 1
C25_Witness ==
  /\ stage = "sort_mcodes"
  /\ \A d \in Dims : Extent2(d) > 0
  /\ \E i \in Leaves :
       /\ \E d \in Dims : CentroidOffset2(i, d) < 0
       /\ \E d \in Dims : CentroidOffset2(i, d) > Extent2(d)
  /\ \E i \in Leaves : \E d \in Dims : CentroidOffset2(i, d) = Extent2(d)
  /\ \E i \in Leaves :
       \E d \in Dims : CentroidOffset2(i, d) > 0 /\ CentroidOffset2(i, d) < Extent2(d)

\* when get_mcodes has returned, every box has coordinate 0 on each axis on which
\* bounds has zero extent
C26_ZeroOnFlatAxes ==
  stage = "sort_mcodes" =>
    \A d \in Dims :
      Extent2(d) = 0 => \A i \in Leaves : CoordInCode(m_mcodes[i], d) = 0

\* get_mcodes on bounds with an axis of zero extent returns into the next stage
C26_FlatAxisStep ==
  (stage = "get_mcodes" /\ \E d \in Dims : Extent2(d) = 0) =>
    (stage' = "sort_mcodes" /\ DOMAIN m_mcodes' = Leaves)

\* C26: when the global bounding box has zero extent along an axis, get_mcodes
\* uses an inverse extent of 0 for that axis instead of dividing by zero, so the
\* integer coordinate of every box on that axis is 0; the condition is handled
\* locally: get_mcodes returns a code for every box and the build goes on to its
\* next stage, no error is signalled.
C26_ZeroExtentHandled == [](C26_ZeroOnFlatAxes) /\ [][C26_FlatAxisStep]_vars

\* get_mcodes has returned for bounds flat on one axis only, and a box whose
\* centroid is off that plane has a coordinate other than 0 on another axis
C26_Witness ==
  /\ stage = "sort_mcodes"
  /\ \E d \in Dims :
       /\ Extent2(d) = 0
       /\ \E e \in Dims : Extent2(e) > 0
       /\ \E i \in Leaves :
            /\ CentroidOffset2(i, d) > 0
            /\ \E e \in Dims : CoordInCode(m_mcodes[i], e) > 0

\* why the loops of a task end, for each node whose task has run: a delta out of
\* range, -1, is not above delta(i, i-d), so the doubling loop has stopped at an
\* lmax below twice the array length; the range length is at least 1, so the
\* step of the split loop reaches 1 and the loop returns a split
C27_LoopsEnd ==
  /\ stage = "build_tree"
  /\ \A i \in built :
       \E r \in {NodeRange(i, m_inner_size, m_mcodes)} :
         \E min_delta \in {delta(i, i - r.d, m_inner_size, m_mcodes)} :
           /\ ~(delta(i, -1, m_inner_size, m_mcodes) > min_delta)
           /\ ~(delta(i, size, m_inner_size, m_mcodes) > min_delta)
           /\ RangeUpperBound(i, r.d, min_delta, 2, m_inner_size, m_mcodes) < 2 * size
           /\ r.l >= 1
           /\ r.s /= NoSplit

\* C27: for every non-decreasing code array with n >= 2 and every internal node
\* i, the per-node task of build_tree terminates: every task comes to run to its
\* end; its doubling loop stops because an out-of-range delta (-1) is never
\* greater than delta(i, i-d), and its split loop stops because the range length
\* l is at least 1, so its step ceil(l / 2^k) reaches 1.
C27_TasksTerminate == [](C27_LoopsEnd) /\ <>(built = Inner)

\* every task has run on five or more codes with a duplicate; the doubling loop
\* of the root went round twice and some node has a range of length 1
C27_Witness ==
  /\ size >= 5
  /\ built = Inner
  /\ \E k \in 0..(size - 2) : m_mcodes[k] = m_mcodes[k + 1]
  /\ RangeUpperBound(0, 1, -1, 2, m_inner_size, m_mcodes) >= 8
  /\ \E i \in Inner : \E r \in {NodeRange(i, m_inner_size, m_mcodes)} : r.l = 1

\* every walk has returned: as the first arrival at a node, or on the sentinel
WalksEnded == \A i \in Leaves : walk[i].pc \in {"killed", "exited"}

\* a walk that has not returned can take its next step whatever the others do
NoWalkWaits ==
  \A i \in Leaves : walk[i].pc \in {"increment", "load", "store"} => ENABLED WalkStep(i)

\* how the walks have ended: one first arrival left at each internal node, n-1 in
\* all, and one walk that stored the box of the root and left on the sentinel -1
WalksEndedAsClaimed ==
  /\ \A k \in Inner :
       Cardinality({i \in Leaves : walk[i].pc = "killed" /\ walk[i].current_node = k}) = 1
  /\ Cardinality({i \in Leaves : walk[i].pc = "killed"}) = size - 1
  /\ Cardinality({i \in Leaves : walk[i].pc = "exited"}) = 1
  /\ \A i \in Leaves :
       walk[i].pc = "exited" =>
         /\ walk[i].current_node = -1
         /\ 0 \in DOMAIN stored_by
         /\ walk[i].last_node = 0
         /\ stored_by[0] = <<i>>
         /\ m_inner_aabbs[0] = walk[i].aabb

\* C28: propagate_aabbs terminates under every fair interleaving of the n leaf
\* walks without any walk waiting on another on the host path: exactly n-1 walks
\* end as the first arrival at some internal node (one at each internal node),
\* and exactly one walk reaches the root, stores its box and exits on the parent
\* sentinel -1.
C28_WalksTerminate ==
  /\ (stage = "propagate_aabbs") ~> (stage \in {"propagate_aabbs", "done"} /\ WalksEnded)
  /\ [](stage = "propagate_aabbs" => NoWalkWaits)
  /\ [](stage \in {"propagate_aabbs", "done"} /\ WalksEnded => WalksEndedAsClaimed)

\* the same for two leaves or more
C28_WalksTerminateFromTwo ==
  /\ (stage = "propagate_aabbs" /\ size >= 2)
       ~> (stage \in {"propagate_aabbs", "done"} /\ WalksEnded)
  /\ [](stage = "propagate_aabbs" /\ size >= 2 => NoWalkWaits)
  /\ [](stage \in {"propagate_aabbs", "done"} /\ size >= 2 /\ WalksEnded
         => WalksEndedAsClaimed)

\* the walk of a single leaf has returned on a leftover -1 without a root to store
C28_SingleLeafWalkEndsWithoutRoot ==
  /\ size = 1
  /\ stage \in {"propagate_aabbs", "done"}
  /\ WalksEnded
  /\ ~WalksEndedAsClaimed

\* the internal node whose box the walk of leaf i is reading, -1 when the other
\* child is a leaf
PolledNode(i) ==
  LET node == walk[i].current_node
      other_child == OtherChild(m_left_children[node], m_right_children[node],
                                walk[i].last_node)
  IN IF other_child >= m_inner_size THEN -1 ELSE other_child

\* the box a walk polls for has been stored by the second arrival at that node and
\* has no coordinate equal to the sentinel, in memory or on its way there
PolledBoxIsOnItsWay ==
  stage = "propagate_aabbs" =>
    \A i \in Leaves :
      walk[i].pc \in {"load", "polling"} /\ PolledNode(i) /= -1 =>
        \E k \in {PolledNode(i)} :
          /\ stored_by[k] /= << >>
          /\ \/ k \in DOMAIN in_flight /\ SentinelCoords(in_flight[k]) = {}
             \/ k \notin DOMAIN in_flight /\ SentinelCoords(m_inner_aabbs[k]) = {}

HoldsReceived(r) == ranks[r].pc \in {"search", "send_result", "recv_result", "copy", "barrier"}

\* the ranks other than r, each once
EveryOtherRankOnce(r, searched) ==
  /\ Len(searched) = m_nranks
  /\ searched[1] = r
  /\ \A q \in Ranks : Cardinality({k \in 1..Len(searched) : searched[k] = q}) = 1

\* the exchange of one round as the ranks and the messages show it
RoundExchange ==
  /\ \A m \in network :
       \E i \in {ranks[m.from].i} :
         /\ m.tag = tag_before => m.to = dst_rank(m.from, i) /\ m.data.src_rank = m.from
         /\ m.tag = tag_after => m.to = rec_rank(m.from, i) /\ m.data.src_rank = m.to
  /\ \A r \in Ranks :
       \E i \in {ranks[r].i} :
         /\ HoldsReceived(r) => ranks[r].rec_node.src_rank = rec_rank(r, i)
         /\ ranks[r].pc = "copy" =>
              /\ ranks[r].proc_node.src_rank = r
              /\ ranks[r].proc_node.searched_by
                   = Append(ranks[r].xfer_node.searched_by, dst_rank(r, i))
         /\ ranks[r].pc = "done" => EveryOtherRankOnce(r, ranks[r].xfer_node.searched_by)

AllRanksDone == \A r \in Ranks : ranks[r].pc = "done"

\* C30: in computeClosestPoints with N > 1 ranks, in round i (1 <= i < N) every
\* rank r sends its query batch to rank (r + i) mod N and receives the batch
\* whose src_rank is (r - i + N) mod N, returns the processed batch to that
\* source and receives its own processed batch back from the rank it sent to;
\* over the N-1 rounds every rank's batch is searched by every other rank exactly
\* once and all ranks finish every round.
C30_RoundRobinExchange ==
  /\ [](m_nranks > 1 => RoundExchange)
  /\ <>(AllRanksDone)

\* no message and no node holds the contents of a released buffer
BuffersIntact ==
  /\ \A m \in network : m.data.intact
  /\ \A r \in Ranks : /\ ranks[r].xfer_node.intact
                       /\ ranks[r].rec_node.intact
                       /\ ranks[r].proc_node.intact

\* the same as long as every message holds the node that was sent
C30_ExchangeWithIntactBuffers ==
  /\ [](m_nranks > 1 /\ BuffersIntact => RoundExchange)
  /\ <>(AllRanksDone \/ ~BuffersIntact)

\* a rank waits for its processed batch, which went to another rank
C30_ResultSentToWrongRank ==
  \E r \in Ranks :
    /\ ranks[r].pc = "recv_result"
    /\ \E m \in network : /\ m.tag = tag_after
                           /\ m.from = dst_rank(r, ranks[r].i)
                           /\ m.to /= r

\* every rank has left the last of the N-1 rounds of three ranks
C30_AllRoundsDone == m_nranks = MaxRanks /\ AllRanksDone /\ BuffersIntact

====
